---- MODULE Spec2Model ----
(***************************************************************************)
(* The circuit editor's state layer (class CircuitEditorState): the node   *)
(* and edge collections, the node-id counter, the operations that edit     *)
(* them and the conversion to and from the wire model.                     *)
(***************************************************************************)
EXTENDS Integers, Sequences, FiniteSets, TLC

VARIABLES
    nodes,        \* _nodes: the ordered node collection
    edges,        \* _edges: the ordered edge collection
    nodeCounter,  \* _nodeCounter: the number the next generated node id carries
    circuit,      \* _circuit: the circuit being edited, none before setCircuit
    saving,       \* _saving: the flag the Save button and the footer read
    requests,     \* the requests the state object handed to the API client, each
                  \* with its state and what the call awaiting it did when it settled
    exported,     \* the object the exportCircuit() call returned to its caller
    route,        \* the page that is open: "none", "editor" or "library"
    loading,      \* loading of the open page
    error,        \* error of the open page
    pageRequests, \* the requests the open page handed to the API client
    circuits,     \* circuits of the library page: the list it displays
    server,       \* the circuits the backend holds
    last,         \* the last call made on the state: operation, arguments, result
    issued        \* the ids addComponent returned since the graph was last reset or replaced

vars == <<nodes, edges, nodeCounter, circuit, saving, requests, exported, route,
          loading, error, pageRequests, circuits, server, last, issued>>

\* the fields of the save and analyze orchestration
orchestration == <<circuit, saving, requests>>

\* the state of the library page and of the backend
library == <<circuits, server>>

\* the state of the pages
pages == <<route, loading, error, pageRequests, library>>

-----------------------------------------------------------------------------
(* Bounds of the exploration *)

\* Save is pressed while the API client has been handed fewer than
\* MaxRequests requests
MaxRequests == 2

\* a page makes a request while it has made fewer than MaxRemote
MaxRemote == 3

\* addComponent is explored while the counter is at most MaxCounter
MaxCounter == 2

-----------------------------------------------------------------------------
(* Values *)

ComponentTypes == {"voltage", "resistor", "capacitor", "inductor"}

\* the types the explored addComponent calls name
AddTypes == {"voltage", "resistor"}

\* a JavaScript undefined / null in a string-valued place
Undefined == "<undefined>"

\* truthiness of a string-valued place: undefined, null and "" are falsy
Truthy(s) == s # Undefined /\ s # ""

\* _circuit = null
NoCircuit == [id |-> 0, name |-> Undefined]

GridSize == 20

DefaultPosition == [x |-> 400, y |-> 300]

DefaultStyle == "stroke: #000000; stroke-width: 3px;"

DefaultMeasure == 96

\* an absent `measured`; exportToApi reads it through `|| 96`, which treats
\* an absent object and a zero width or height alike
NoMeasured == [width |-> 0, height |-> 0]

\* Math.round(num / den) for integers num and den > 0: halves round up
MathRound(num, den) == (2 * num + den) \div (2 * den)

snapToGrid_truncating(position) ==
    [x |-> (position.x \div GridSize) * GridSize,
     y |-> (position.y \div GridSize) * GridSize]

snapToGrid(position) ==
    [x |-> MathRound(position.x, GridSize) * GridSize,
     y |-> MathRound(position.y, GridSize) * GridSize]

\* `${componentType}-${n}`
NodeId(componentType, n) == componentType \o "-" \o ToString(n)

DefaultEdgeId_targetFirst(sourceId, targetId) == "e" \o targetId \o "-" \o sourceId

\* `e${sourceId}-${targetId}`
DefaultEdgeId(sourceId, targetId) == "e" \o sourceId \o "-" \o targetId

\* the smallest of a set of indices, 0 when the set is empty: the index
\* Array.prototype.find / findIndex stops at (1-based), given the indices whose
\* elements match
FirstIndex(matching) ==
    IF matching = {} THEN 0
    ELSE CHOOSE i \in matching : \A j \in matching : i <= j

-----------------------------------------------------------------------------
(* Operations of CircuitEditorState, as functions of the fields they read *)

addComponentInternal_countBased(ns, counter, componentType, position, label) ==
    [nodes   |-> Append(ns, [id        |-> NodeId(componentType, Len(ns) + 1),
                             type      |-> "electrical",
                             position  |-> snapToGrid(position),
                             data      |-> [type |-> componentType, label |-> label],
                             measured  |-> NoMeasured,
                             selected  |-> FALSE,
                             dragging  |-> FALSE]),
     counter |-> counter + 1,
     ret     |-> NodeId(componentType, Len(ns) + 1)]

addComponentInternal(ns, counter, componentType, position, label) ==
    LET nodeId == NodeId(componentType, counter)
        newNode == [id        |-> nodeId,
                    type      |-> "electrical",
                    position  |-> snapToGrid(position),
                    data      |-> [type |-> componentType, label |-> label],
                    measured  |-> NoMeasured,
                    selected  |-> FALSE,
                    dragging  |-> FALSE]
    IN  [nodes |-> Append(ns, newNode), counter |-> counter + 1, ret |-> nodeId]

removeNode_sourceOnly(ns, es, nodeId) ==
    [nodes |-> SelectSeq(ns, LAMBDA node : node.id # nodeId),
     edges |-> SelectSeq(es, LAMBDA edge : edge.source # nodeId),
     ret   |-> Len(SelectSeq(ns, LAMBDA node : node.id # nodeId)) < Len(ns)]

removeNode(ns, es, nodeId) ==
    LET kept == SelectSeq(ns, LAMBDA node : node.id # nodeId)
    IN  [nodes |-> kept,
         edges |-> SelectSeq(es, LAMBDA edge :
                       edge.source # nodeId /\ edge.target # nodeId),
         ret   |-> Len(kept) < Len(ns)]

removeEdge(es, edgeId) ==
    LET kept == SelectSeq(es, LAMBDA edge : edge.id # edgeId)
    IN  [edges |-> kept, ret |-> Len(kept) < Len(es)]

addEdge_sameDirectionOnly(es, sourceId, targetId, edgeId, style) ==
    LET id == IF Truthy(edgeId) THEN edgeId ELSE DefaultEdgeId(sourceId, targetId)
        i  == FirstIndex({k \in DOMAIN es :
                  es[k].source = sourceId /\ es[k].target = targetId})
    IN  IF i # 0
        THEN [edges |-> es, ret |-> es[i].id]
        ELSE [edges |-> Append(es, [id |-> id, source |-> sourceId,
                                    target |-> targetId,
                                    sourceHandle |-> Undefined,
                                    targetHandle |-> Undefined,
                                    type |-> "step",
                                    style |-> IF Truthy(style) THEN style
                                              ELSE DefaultStyle]),
              ret   |-> id]

addEdge_returnsOwnId(es, sourceId, targetId, edgeId, style) ==
    LET id == IF Truthy(edgeId) THEN edgeId ELSE DefaultEdgeId(sourceId, targetId)
        i  == FirstIndex({k \in DOMAIN es :
                  \/ es[k].source = sourceId /\ es[k].target = targetId
                  \/ es[k].source = targetId /\ es[k].target = sourceId})
    IN  IF i # 0
        THEN [edges |-> es, ret |-> id]
        ELSE [edges |-> Append(es, [id |-> id, source |-> sourceId,
                                    target |-> targetId,
                                    sourceHandle |-> Undefined,
                                    targetHandle |-> Undefined,
                                    type |-> "step",
                                    style |-> IF Truthy(style) THEN style
                                              ELSE DefaultStyle]),
              ret   |-> id]

addEdge_checksEndpoints(es, sourceId, targetId, edgeId, style) ==
    LET id == IF Truthy(edgeId) THEN edgeId ELSE DefaultEdgeId(sourceId, targetId)
        i  == FirstIndex({k \in DOMAIN es :
                  \/ es[k].source = sourceId /\ es[k].target = targetId
                  \/ es[k].source = targetId /\ es[k].target = sourceId})
        known == {nodes[k].id : k \in DOMAIN nodes}
    IN  IF i # 0
        THEN [edges |-> es, ret |-> es[i].id]
        ELSE IF sourceId \notin known \/ targetId \notin known
        THEN [edges |-> es, ret |-> Undefined]
        ELSE [edges |-> Append(es, [id |-> id, source |-> sourceId,
                                    target |-> targetId,
                                    sourceHandle |-> Undefined,
                                    targetHandle |-> Undefined,
                                    type |-> "step",
                                    style |-> IF Truthy(style) THEN style
                                              ELSE DefaultStyle]),
              ret   |-> id]

addEdge(es, sourceId, targetId, edgeId, style) ==
    LET id == IF Truthy(edgeId) THEN edgeId ELSE DefaultEdgeId(sourceId, targetId)
        i  == FirstIndex({k \in DOMAIN es :
                  \/ es[k].source = sourceId /\ es[k].target = targetId
                  \/ es[k].source = targetId /\ es[k].target = sourceId})
        newEdge == [id           |-> id,
                    source       |-> sourceId,
                    target       |-> targetId,
                    sourceHandle |-> Undefined,
                    targetHandle |-> Undefined,
                    type         |-> "step",
                    style        |-> IF Truthy(style) THEN style ELSE DefaultStyle]
    IN  IF i # 0
        THEN [edges |-> es, ret |-> es[i].id]
        ELSE [edges |-> Append(es, newEdge), ret |-> id]

getNodeById(ns, nodeId) == FirstIndex({k \in DOMAIN ns : ns[k].id = nodeId})

getEdgeById(es, edgeId) == FirstIndex({k \in DOMAIN es : es[k].id = edgeId})

updateNodePosition_noAbsentCheck(ns, nodeId, position) ==
    LET nodeIndex == FirstIndex({k \in DOMAIN ns : ns[k].id = nodeId})
    IN  IF nodeIndex = 0
        THEN [nodes |-> ns, ret |-> TRUE]
        ELSE [nodes |-> [ns EXCEPT ![nodeIndex].position = snapToGrid(position)],
              ret   |-> TRUE]

updateNodePosition(ns, nodeId, position) ==
    LET nodeIndex == FirstIndex({k \in DOMAIN ns : ns[k].id = nodeId})
    IN  IF nodeIndex = 0
        THEN [nodes |-> ns, ret |-> FALSE]
        ELSE [nodes |-> [ns EXCEPT ![nodeIndex].position = snapToGrid(position)],
              ret   |-> TRUE]

\* { ...data, ...partial }: a field of the partial replaces the node's
MergeData(data, partial) ==
    [type  |-> IF "type" \in DOMAIN partial THEN partial.type ELSE data.type,
     label |-> IF "label" \in DOMAIN partial THEN partial.label ELSE data.label]

updateNodeData(ns, nodeId, data) ==
    LET nodeIndex == FirstIndex({k \in DOMAIN ns : ns[k].id = nodeId})
    IN  IF nodeIndex = 0
        THEN [nodes |-> ns, ret |-> FALSE]
        ELSE [nodes |-> [ns EXCEPT ![nodeIndex].data = MergeData(@, data)],
              ret   |-> TRUE]

clear_keepCounter(counter) ==
    [nodes |-> <<>>, edges |-> <<>>, counter |-> counter]

\* clear() as a function of the counter it overwrites
clear(counter) ==
    [nodes |-> <<>>, edges |-> <<>>, counter |-> 1]

getNodesByType(ns, componentType) ==
    SelectSeq(ns, LAMBDA node : node.data.type = componentType)

getConnectedEdges_sourceOnly(es, nodeId) ==
    SelectSeq(es, LAMBDA edge : edge.source = nodeId)

getConnectedEdges(es, nodeId) ==
    SelectSeq(es, LAMBDA edge : edge.source = nodeId \/ edge.target = nodeId)

getCircuitStats(ns, es) ==
    [totalNodes |-> Len(ns),
     totalEdges |-> Len(es),
     componentCounts |->
        [t \in ComponentTypes |->
            Cardinality({i \in DOMAIN ns : ns[i].data.type = t})]]

\* `${n} disconnected component(s) found`
DisconnectedWarning(n) == ToString(n) \o " disconnected component(s) found"

NoVoltageWarning == "No voltage source found in circuit"

validateCircuit_warnsWhenEmpty(ns, es) ==
    [isValid  |-> TRUE,
     errors   |-> <<>>,
     warnings |->
        LET disconnectedNodes ==
                SelectSeq(ns, LAMBDA node : Len(getConnectedEdges(es, node.id)) = 0)
        IN  (IF Len(disconnectedNodes) > 0
             THEN <<DisconnectedWarning(Len(disconnectedNodes))>> ELSE <<>>)
            \o (IF Len(getNodesByType(ns, "voltage")) = 0
                THEN <<NoVoltageWarning>> ELSE <<>>)]

validateCircuit(ns, es) ==
    LET errors == <<>>
        disconnectedNodes ==
            SelectSeq(ns, LAMBDA node : Len(getConnectedEdges(es, node.id)) = 0)
        voltageNodes == getNodesByType(ns, "voltage")
        warnings ==
            (IF Len(disconnectedNodes) > 0
             THEN <<DisconnectedWarning(Len(disconnectedNodes))>> ELSE <<>>)
            \o (IF Len(voltageNodes) = 0 /\ Len(ns) > 0
                THEN <<NoVoltageWarning>> ELSE <<>>)
    IN  [isValid |-> Len(errors) = 0, errors |-> errors, warnings |-> warnings]

-----------------------------------------------------------------------------
(* Conversion to and from the wire model *)

\* metadata?.nodeCounter as a sequence: <<>> when the metadata or its counter
\* is absent, <<n>> when given
NoCounter == <<>>

\* the timestamp exportToApi writes; importFromApi never reads it
Now == "<now>"

importCircuit_noFallback(circuitData) ==
    [nodes   |-> circuitData.nodes,
     edges   |-> [i \in DOMAIN circuitData.edges |->
                    [circuitData.edges[i] EXCEPT
                        !.type  = IF Truthy(@) THEN @ ELSE "step",
                        !.style = IF Truthy(@) THEN @ ELSE Undefined]],
     counter |-> IF circuitData.metadata.nodeCounter # NoCounter
                 THEN circuitData.metadata.nodeCounter[1]
                 ELSE Len(circuitData.nodes) + 1]

importCircuit(circuitData) ==
    [nodes   |-> circuitData.nodes,
     edges   |-> [i \in DOMAIN circuitData.edges |->
                    [circuitData.edges[i] EXCEPT
                        !.type  = IF Truthy(@) THEN @ ELSE "step",
                        !.style = IF Truthy(@) THEN @ ELSE Undefined]],
     counter |-> IF /\ circuitData.metadata.nodeCounter # NoCounter
                    /\ circuitData.metadata.nodeCounter[1] # 0
                 THEN circuitData.metadata.nodeCounter[1]
                 ELSE Len(circuitData.nodes) + 1]

\* the nodes and edges importFromApi hands to importCircuit
ConvertedNodes(apiNodes) ==
    [i \in DOMAIN apiNodes |->
        [id       |-> apiNodes[i].id,
         type     |-> "electrical",
         position |-> apiNodes[i].position,
         data     |-> [type |-> apiNodes[i].data.type, label |-> Undefined],
         measured |-> apiNodes[i].measured,
         selected |-> apiNodes[i].selected,
         dragging |-> apiNodes[i].dragging]]

ConvertedEdges_swapped(apiEdges) ==
    [i \in DOMAIN apiEdges |->
        [id           |-> apiEdges[i].id,
         source       |-> apiEdges[i].target,
         sourceHandle |-> apiEdges[i].sourceHandle,
         target       |-> apiEdges[i].source,
         targetHandle |-> apiEdges[i].targetHandle,
         type         |-> "step",
         style        |-> IF Truthy(apiEdges[i].style) THEN apiEdges[i].style
                          ELSE Undefined]]

ConvertedEdges(apiEdges) ==
    [i \in DOMAIN apiEdges |->
        [id           |-> apiEdges[i].id,
         source       |-> apiEdges[i].source,
         sourceHandle |-> apiEdges[i].sourceHandle,
         target       |-> apiEdges[i].target,
         targetHandle |-> apiEdges[i].targetHandle,
         type         |-> "step",
         style        |-> IF Truthy(apiEdges[i].style) THEN apiEdges[i].style
                          ELSE Undefined]]

importFromApi(apiModel) ==
    importCircuit([nodes    |-> ConvertedNodes(apiModel.nodes),
                   edges    |-> ConvertedEdges(apiModel.edges),
                   metadata |-> apiModel.metadata])

exportToApi_noCounter(ns, es, counter) ==
    [nodes |-> [i \in DOMAIN ns |->
                  [id       |-> ns[i].id,
                   type     |-> IF Truthy(ns[i].type) THEN ns[i].type ELSE "electrical",
                   position |-> ns[i].position,
                   data     |-> ns[i].data,
                   measured |-> [width  |-> IF ns[i].measured.width # 0
                                            THEN ns[i].measured.width
                                            ELSE DefaultMeasure,
                                 height |-> IF ns[i].measured.height # 0
                                            THEN ns[i].measured.height
                                            ELSE DefaultMeasure],
                   selected |-> ns[i].selected,
                   dragging |-> ns[i].dragging]],
     edges |-> [i \in DOMAIN es |->
                  [id           |-> es[i].id,
                   source       |-> es[i].source,
                   sourceHandle |-> IF Truthy(es[i].sourceHandle)
                                    THEN es[i].sourceHandle ELSE "right",
                   target       |-> es[i].target,
                   targetHandle |-> IF Truthy(es[i].targetHandle)
                                    THEN es[i].targetHandle ELSE "left",
                   style        |-> IF Truthy(es[i].style) THEN es[i].style
                                    ELSE Undefined]],
     metadata |-> [nodeCounter |-> NoCounter, lastModified |-> Now]]

exportToApi(ns, es, counter) ==
    [nodes |-> [i \in DOMAIN ns |->
                  [id       |-> ns[i].id,
                   type     |-> IF Truthy(ns[i].type) THEN ns[i].type ELSE "electrical",
                   position |-> ns[i].position,
                   data     |-> ns[i].data,
                   measured |-> [width  |-> IF ns[i].measured.width # 0
                                            THEN ns[i].measured.width
                                            ELSE DefaultMeasure,
                                 height |-> IF ns[i].measured.height # 0
                                            THEN ns[i].measured.height
                                            ELSE DefaultMeasure],
                   selected |-> ns[i].selected,
                   dragging |-> ns[i].dragging]],
     edges |-> [i \in DOMAIN es |->
                  [id           |-> es[i].id,
                   source       |-> es[i].source,
                   sourceHandle |-> IF Truthy(es[i].sourceHandle)
                                    THEN es[i].sourceHandle ELSE "right",
                   target       |-> es[i].target,
                   targetHandle |-> IF Truthy(es[i].targetHandle)
                                    THEN es[i].targetHandle ELSE "left",
                   style        |-> IF Truthy(es[i].style) THEN es[i].style
                                    ELSE Undefined]],
     metadata |-> [nodeCounter |-> <<counter>>, lastModified |-> Now]]

-----------------------------------------------------------------------------
(* Saving and analyzing: the API client and the orchestration methods *)

\* what the network answers to a request: a 2xx response, a response that is
\* not ok, or no response at all (fetch rejects)
Responses == {"200", "500", "network error"}

\* ApiClient.request once fetch has settled: whether the promise it returned
\* rejects, with what error, and whether it logged the failure
request(response) ==
    IF response = "200"
    THEN [rejected |-> FALSE, error |-> Undefined, logged |-> FALSE]
    ELSE [rejected |-> TRUE,
          error    |-> IF response = "network error"
                       THEN "TypeError: Failed to fetch"
                       ELSE "HTTP " \o response,
          logged   |-> TRUE]

\* the request ApiClient.updateCircuitWithFlowData hands to fetch; the body is
\* serialized when the call is made
updateCircuitWithFlowData_dropsEdges(id, flowData) ==
    [endpoint |-> "/circuits/" \o ToString(id) \o "/",
     method   |-> "PATCH",
     body     |-> [svelte_flow_model |-> [flowData EXCEPT !.edges = <<>>]]]

updateCircuitWithFlowData(id, flowData) ==
    [endpoint |-> "/circuits/" \o ToString(id) \o "/",
     method   |-> "PATCH",
     body     |-> [svelte_flow_model |-> flowData]]

\* the request ApiClient.analyzeCircuit hands to fetch
analyzeCircuitRequest(id, analysisType) ==
    [endpoint |-> "/circuits/" \o ToString(id) \o "/analyze/",
     method   |-> "POST",
     body     |-> [analysis_type |-> analysisType]]

\* a request in flight, with blanks for what the call awaiting it does when
\* it settles: the alert it shows, whether it logs an error, the error it
\* re-raises
InFlight(req) ==
    [endpoint |-> req.endpoint, method |-> req.method, body |-> req.body,
     state |-> "pending", alert |-> Undefined, logged |-> FALSE,
     raised |-> Undefined]

\* saveCircuit() up to its await: the flag it leaves, the requests it has
\* sent, the error it raises without sending anything
saveCircuit_flagAfterAwait(c, ns, es, counter, sv) ==
    IF c = NoCircuit
    THEN [saving |-> sv, sent |-> <<>>, raised |-> "No circuit loaded"]
    ELSE [saving |-> sv,
          sent   |-> <<updateCircuitWithFlowData(c.id, exportToApi(ns, es, counter))>>,
          raised |-> Undefined]

saveCircuit(c, ns, es, counter, sv) ==
    IF c = NoCircuit
    THEN [saving |-> sv, sent |-> <<>>, raised |-> "No circuit loaded"]
    ELSE [saving |-> TRUE,
          sent   |-> <<updateCircuitWithFlowData(c.id, exportToApi(ns, es, counter))>>,
          raised |-> Undefined]

saveCircuitSettled_noFinally(outcome) ==
    IF outcome.rejected
    THEN [saving |-> TRUE, state |-> "rejected",
          alert  |-> "Failed to save circuit. Please try again.",
          logged |-> TRUE, raised |-> outcome.error]
    ELSE [saving |-> FALSE, state |-> "fulfilled",
          alert  |-> "Circuit saved successfully!",
          logged |-> FALSE, raised |-> Undefined]

\* saveCircuit() from its await on: the alert, the catch block and the
\* finally block
saveCircuitSettled(outcome) ==
    IF outcome.rejected
    THEN [saving |-> FALSE, state |-> "rejected",
          alert  |-> "Failed to save circuit. Please try again.",
          logged |-> TRUE, raised |-> outcome.error]
    ELSE [saving |-> FALSE, state |-> "fulfilled",
          alert  |-> "Circuit saved successfully!",
          logged |-> FALSE, raised |-> Undefined]

\* Array.prototype.join
RECURSIVE Join(_, _)
Join(strings, separator) ==
    IF strings = <<>> THEN ""
    ELSE IF Len(strings) = 1 THEN strings[1]
    ELSE strings[1] \o separator \o Join(Tail(strings), separator)

analyzeValidated_blocksOnWarnings(c, validation) ==
    IF c = NoCircuit
    THEN [alert |-> "No circuit loaded", started |-> FALSE, warned |-> FALSE,
          sent |-> <<>>]
    ELSE IF ~validation.isValid \/ Len(validation.warnings) > 0
    THEN [alert |-> "Circuit has errors: " \o Join(validation.errors, ", "),
          started |-> FALSE, warned |-> FALSE, sent |-> <<>>]
    ELSE [alert |-> "Circuit analysis started! (Analysis API not yet implemented)",
          started |-> TRUE, warned |-> FALSE, sent |-> <<>>]

\* analyzeCircuit() once it holds the validation: the alert it shows, whether
\* it reaches the analysis, whether it logs the warnings, the requests it sends
analyzeValidated(c, validation) ==
    IF c = NoCircuit
    THEN [alert |-> "No circuit loaded", started |-> FALSE, warned |-> FALSE,
          sent |-> <<>>]
    ELSE IF ~validation.isValid
    THEN [alert |-> "Circuit has errors: " \o Join(validation.errors, ", "),
          started |-> FALSE, warned |-> FALSE, sent |-> <<>>]
    ELSE [alert |-> "Circuit analysis started! (Analysis API not yet implemented)",
          started |-> TRUE, warned |-> Len(validation.warnings) > 0,
          sent |-> <<>>]

analyzeCircuit(c, ns, es) == analyzeValidated(c, validateCircuit(ns, es))

SaveDisabled_never(sv) == FALSE

\* the Save button's disabled attribute
SaveDisabled(sv) == sv

-----------------------------------------------------------------------------
(* The arguments the explored calls draw from *)

\* node ids named as edge endpoints and in removeNode / update calls; a name
\* is the id of a node of the collection or not, depending on the state
EndpointIds == {"voltage-1", "resistor-2"}

\* the (sourceId, targetId) pairs the explored addEdge calls name: one pair in
\* both directions and a self-loop
EdgeArgs ==
    {<<"voltage-1", "resistor-2">>, <<"resistor-2", "voltage-1">>,
     <<"resistor-2", "resistor-2">>}

\* node ids named in updateNodePosition / updateNodeData calls
UpdateIds == {"resistor-2", "inductor-9"}

\* addEdge's optional edgeId and style
EdgeOptions ==
    {[edgeId |-> Undefined, style |-> Undefined],
     [edgeId |-> "w1", style |-> "stroke: red"]}

\* edge ids named in removeEdge calls, besides those of the collection
AbsentEdgeId == "w9"

PositionArgs == {[x |-> 23, y |-> -11]}

\* positions named in the updateNodePosition calls of SpecMove: both signs,
\* multiples of the pitch, values halfway between two multiples and values on
\* either side of halfway
MovePositions ==
    {[x |-> 23, y |-> -11], [x |-> 10, y |-> -10], [x |-> -30, y |-> 30],
     [x |-> -1, y |-> 9], [x |-> 40, y |-> -20], [x |-> -29, y |-> 31]}

\* a node id no operation generates within the bounds
AbsentNodeId == "inductor-9"

DataArgs == {[label |-> "R1"]}

ApiNode(id, componentType, x, y, label) ==
    [id       |-> id,
     type     |-> "electrical",
     position |-> [x |-> x, y |-> y],
     data     |-> [type |-> componentType, label |-> label],
     measured |-> [width |-> DefaultMeasure, height |-> DefaultMeasure],
     selected |-> FALSE,
     dragging |-> FALSE]

ApiEdge(id, source, sourceHandle, target, targetHandle, style) ==
    [id |-> id, source |-> source, sourceHandle |-> sourceHandle,
     target |-> target, targetHandle |-> targetHandle, style |-> style]

ApiNodeLists ==
    {<<ApiNode("resistor-2", "resistor", 30, 45, "R1")>>}

ApiEdgeLists ==
    {<<ApiEdge("w1", "resistor-2", "left", "voltage-1", Undefined, ""),
       ApiEdge("w3", "voltage-1", "right", "resistor-2", "left", "stroke: red")>>}

MetadataArgs ==
    {[nodeCounter |-> c, lastModified |-> Now] : c \in {NoCounter, <<0>>, <<1>>, <<4>>}}

ApiModels ==
    [nodes : ApiNodeLists, edges : ApiEdgeLists, metadata : MetadataArgs]

\* payloads of importCircuit: nodes and edges in the editor's own shape
CircuitDatas ==
    {[nodes    |-> <<[id |-> "inductor-7", type |-> "electrical",
                      position |-> [x |-> 100, y |-> 100],
                      data |-> [type |-> "inductor", label |-> "L1"],
                      measured |-> NoMeasured, selected |-> TRUE,
                      dragging |-> FALSE]>>,
      edges    |-> <<[id |-> "w1", source |-> "inductor-7", target |-> "inductor-7",
                      sourceHandle |-> Undefined, targetHandle |-> Undefined,
                      type |-> Undefined, style |-> ""],
                     [id |-> "w2", source |-> "inductor-7", target |-> "voltage-1",
                      sourceHandle |-> "top", targetHandle |-> "left",
                      type |-> "straight", style |-> "stroke: blue"]>>,
      metadata |-> m] : m \in {[nodeCounter |-> c, lastModified |-> Now] :
                                  c \in {NoCounter, <<1>>}}}

NoPosition == [x |-> 0, y |-> 0]

\* the circuits the page loads: one never saved with a graph, one saved with
\* a graph whose counter is behind its node ids
Circuits ==
    {[id |-> 7, name |-> "rc", svelte_flow_model |-> <<>>],
     [id |-> 7, name |-> "rc", svelte_flow_model |->
        <<[nodes    |-> <<ApiNode("resistor-2", "resistor", 40, 60, Undefined)>>,
           edges    |-> <<ApiEdge("w1", "resistor-2", "right", "voltage-1", "left",
                                  Undefined)>>,
           metadata |-> [nodeCounter |-> <<1>>, lastModified |-> Now]]>>]}

NoPayload ==
    [nodes |-> <<>>, edges |-> <<>>,
     metadata |-> [nodeCounter |-> NoCounter, lastModified |-> Now]]

\* the record of a call made in a state with the given collections: the
\* operation, the collections' sizes before it, and blanks for its arguments
\* (x, y), a position argument, the index of the request it is about, the
\* returned id or the alert shown, the returned boolean, whether
\* the call is an addEdge naming the endpoints of the addEdge call just before
\* it in swapped order, and an import's payload
Call(op, ns, es) ==
    [op |-> op, hadNodes |-> Len(ns), hadEdges |-> Len(es),
     x |-> Undefined, y |-> Undefined, position |-> NoPosition, index |-> 0,
     id |-> Undefined, ok |-> FALSE,
     swapped |-> FALSE, payload |-> NoPayload]

NodeIds == {nodes[i].id : i \in DOMAIN nodes}

EdgeIds == {edges[i].id : i \in DOMAIN edges}

-----------------------------------------------------------------------------
(* The object exportCircuit returns and the arrays it shares with the state *)

\* exportCircuit(): an object whose nodes and edges are the arrays _nodes and
\* _edges themselves
exportCircuit(ns, es, counter) ==
    [nodes |-> ns, edges |-> es,
     metadata |-> [nodeCounter |-> counter, lastModified |-> Now]]

\* an object exportCircuit returned, as its holder reads it now (object) and
\* as it read when it was returned (atExport); sameNodes and sameEdges tell
\* whether its arrays are still the ones _nodes and _edges refer to
Held(object) ==
    [held |-> TRUE, object |-> object, atExport |-> object,
     sameNodes |-> TRUE, sameEdges |-> TRUE]

\* no exportCircuit call has been made
NotExported ==
    [held |-> FALSE, object |-> exportCircuit(<<>>, <<>>, 0),
     atExport |-> exportCircuit(<<>>, <<>>, 0),
     sameNodes |-> FALSE, sameEdges |-> FALSE]

\* an assignment of a new array to _nodes (nodesToo) or _edges (edgesToo):
\* the exported object keeps the array it was given
Reassigned(exp, nodesToo, edgesToo) ==
    [exp EXCEPT !.sameNodes = @ /\ ~nodesToo,
                !.sameEdges = @ /\ ~edgesToo]

\* this._nodes[nodeIndex] = {...}: a write into the array _nodes refers to,
\* after which that array reads as ns; an exported object sharing the array
\* reads the same
WrittenInPlace(exp, ns) ==
    IF exp.sameNodes THEN [exp EXCEPT !.object.nodes = ns] ELSE exp

-----------------------------------------------------------------------------
(* The editor page and the library page *)

\* parseInt of the id in the editor page's address
CircuitId == 7

\* the requests the API client's CRUD methods hand to fetch; body is <<>>
\* when the request carries none
getCircuits == [endpoint |-> "/circuits/", method |-> "GET", body |-> <<>>]

getCircuit(id) ==
    [endpoint |-> "/circuits/" \o ToString(id) \o "/", method |-> "GET",
     body |-> <<>>]

createCircuit(data) ==
    [endpoint |-> "/circuits/", method |-> "POST", body |-> <<data>>]

deleteCircuitRequest(id) ==
    [endpoint |-> "/circuits/" \o ToString(id) \o "/", method |-> "DELETE",
     body |-> <<>>]

\* no answer of the backend yet
NoResponse == [status |-> "none", payload |-> <<>>]

\* a request a page has made (kind: "load", "list", "create" or "delete"; arg:
\* the id a delete names), with blanks for the backend's answer and for what
\* the call awaiting it does when it settles: the alert it shows, whether it
\* logs an error, the message it puts into the error view
PageRequest(kind, arg, req) ==
    [kind |-> kind, arg |-> arg, endpoint |-> req.endpoint,
     method |-> req.method, body |-> req.body, state |-> "pending",
     response |-> NoResponse, alert |-> Undefined, logged |-> FALSE,
     shown |-> Undefined]

\* the editor page's loadCircuit() up to its await
loadCircuit(id) ==
    [loading |-> TRUE, error |-> Undefined, sent |-> <<getCircuit(id)>>]

loadCircuitSettled_swallowsError(err, outcome) ==
    IF outcome.rejected
    THEN [loading |-> FALSE, error |-> err, state |-> "rejected",
          logged |-> TRUE, shown |-> Undefined]
    ELSE [loading |-> FALSE, error |-> err, state |-> "fulfilled",
          logged |-> FALSE, shown |-> Undefined]

\* loadCircuit() from its await on, apart from what it does to the editor
\* state: the catch block and the finally block
loadCircuitSettled(err, outcome) ==
    IF outcome.rejected
    THEN [loading |-> FALSE, error |-> outcome.error, state |-> "rejected",
          logged |-> TRUE, shown |-> outcome.error]
    ELSE [loading |-> FALSE, error |-> err, state |-> "fulfilled",
          logged |-> FALSE, shown |-> Undefined]

\* the library page's onMount callback from its await on
onMountSettled(cs, err, outcome, results) ==
    IF outcome.rejected
    THEN [circuits |-> cs, error |-> outcome.error, loading |-> FALSE,
          state |-> "rejected", alert |-> Undefined, logged |-> TRUE,
          shown |-> outcome.error]
    ELSE [circuits |-> results, error |-> err, loading |-> FALSE,
          state |-> "fulfilled", alert |-> Undefined, logged |-> FALSE,
          shown |-> Undefined]

\* createNewCircuit() up to its await: nothing is sent when the prompt is
\* cancelled or left empty
createNewCircuit(name) ==
    [sent |-> IF Truthy(name) THEN <<createCircuit([name |-> name])>> ELSE <<>>]

\* createNewCircuit() from its await on; created holds the circuit of the
\* answer
createNewCircuitSettled(cs, outcome, created) ==
    IF outcome.rejected
    THEN [circuits |-> cs, state |-> "rejected",
          alert |-> "Failed to create circuit: " \o outcome.error,
          logged |-> TRUE, shown |-> Undefined]
    ELSE [circuits |-> cs \o created, state |-> "fulfilled",
          alert |-> "Circuit created successfully!",
          logged |-> FALSE, shown |-> Undefined]

\* the library page's deleteCircuit(id) from its await on
deleteCircuitSettled(cs, id, outcome) ==
    IF outcome.rejected
    THEN [circuits |-> cs, state |-> "rejected",
          alert |-> "Failed to delete circuit. Please try again.",
          logged |-> TRUE, shown |-> Undefined]
    ELSE [circuits |-> SelectSeq(cs, LAMBDA c : c.id # id),
          state |-> "fulfilled", alert |-> Undefined, logged |-> FALSE,
          shown |-> Undefined]

\* the answers to the page's prompt: a name, or nothing
PromptAnswers == {"lowpass", ""}

\* the statuses the backend answers with
ServerStatuses == {"200", "500"}

\* the backend when a page is opened: the circuits it holds and the id it
\* gives to the next one
InitialServer ==
    [rows |-> <<[id |-> CircuitId, name |-> "rc"]>>, nextId |-> CircuitId + 1]

\* the backend handling a request of the library page: what it holds
\* afterwards and its answer as ApiClient's getCircuits, createCircuit and
\* deleteCircuit read it
Served(srv, req, status) ==
    IF status # "200"
    THEN [server |-> srv, response |-> [status |-> status, payload |-> <<>>]]
    ELSE IF req.kind = "list"
    THEN [server |-> srv,
          response |-> [status |-> status, payload |-> srv.rows]]
    ELSE IF req.kind = "create"
    THEN LET row == [id |-> srv.nextId, name |-> req.body[1].name]
         IN  [server |-> [rows |-> Append(srv.rows, row),
                          nextId |-> srv.nextId + 1],
              response |-> [status |-> status, payload |-> <<row>>]]
    ELSE [server |-> [srv EXCEPT !.rows = SelectSeq(@, LAMBDA c : c.id # req.arg)],
          response |-> [status |-> status, payload |-> <<>>]]

\* the library page shows the list, with a Delete button for each circuit
ListShown ==
    /\ route = "library"
    /\ ~loading
    /\ ~Truthy(error)
    /\ circuits # <<>>

-----------------------------------------------------------------------------
(* The state machine *)

Init ==
    /\ nodes = <<>>
    /\ edges = <<>>
    /\ nodeCounter = 1
    /\ circuit = NoCircuit
    /\ saving = FALSE
    /\ requests = <<>>
    /\ exported = NotExported
    /\ route = "none"
    /\ loading = TRUE
    /\ error = Undefined
    /\ pageRequests = <<>>
    /\ circuits = <<>>
    /\ server = InitialServer
    /\ last = Call("new", <<>>, <<>>)
    /\ issued = <<>>

\* addComponent(componentType): the toolbar's call, at the default position
AddComponent(componentType) ==
    /\ nodeCounter <= MaxCounter
    /\ LET r == addComponentInternal(nodes, nodeCounter, componentType,
                                     DefaultPosition, Undefined)
       IN  /\ nodes' = r.nodes
           /\ nodeCounter' = r.counter
           /\ issued' = Append(issued, r.ret)
           /\ last' = [Call("addComponent", nodes, edges) EXCEPT
                           !.x = componentType, !.id = r.ret]
    /\ exported' = Reassigned(exported, TRUE, FALSE)
    /\ UNCHANGED <<edges, orchestration, pages>>

RemoveNode(nodeId) ==
    /\ LET r == removeNode(nodes, edges, nodeId)
       IN  /\ nodes' = r.nodes
           /\ edges' = r.edges
           /\ last' = [Call("removeNode", nodes, edges) EXCEPT
                           !.x = nodeId, !.ok = r.ret]
    /\ exported' = Reassigned(exported, TRUE, TRUE)
    /\ UNCHANGED <<nodeCounter, issued, orchestration, pages>>

RemoveEdge(edgeId) ==
    /\ LET r == removeEdge(edges, edgeId)
       IN  /\ edges' = r.edges
           /\ last' = [Call("removeEdge", nodes, edges) EXCEPT
                           !.x = edgeId, !.ok = r.ret]
    /\ exported' = Reassigned(exported, FALSE, TRUE)
    /\ UNCHANGED <<nodes, nodeCounter, issued, orchestration, pages>>

AddEdge(sourceId, targetId, opt) ==
    /\ LET r == addEdge(edges, sourceId, targetId, opt.edgeId, opt.style)
       IN  /\ edges' = r.edges
           /\ exported' = Reassigned(exported, FALSE, Len(r.edges) > Len(edges))
           /\ last' = [Call("addEdge", nodes, edges) EXCEPT
                           !.x = sourceId, !.y = targetId, !.id = r.ret,
                           !.swapped = /\ last.op = "addEdge"
                                       /\ last.x = targetId
                                       /\ last.y = sourceId]
    /\ UNCHANGED <<nodes, nodeCounter, issued, orchestration, pages>>

UpdateNodePosition(nodeId, position) ==
    /\ LET r == updateNodePosition(nodes, nodeId, position)
       IN  /\ nodes' = r.nodes
           /\ exported' = IF r.ret
                          THEN Reassigned(WrittenInPlace(exported, r.nodes),
                                          TRUE, FALSE)
                          ELSE exported
           /\ last' = [Call("updateNodePosition", nodes, edges) EXCEPT
                           !.x = nodeId, !.position = position, !.ok = r.ret]
    /\ UNCHANGED <<edges, nodeCounter, issued, orchestration, pages>>

UpdateNodeData(nodeId, data) ==
    /\ LET r == updateNodeData(nodes, nodeId, data)
       IN  /\ nodes' = r.nodes
           /\ exported' = IF r.ret
                          THEN Reassigned(WrittenInPlace(exported, r.nodes),
                                          TRUE, FALSE)
                          ELSE exported
           /\ last' = [Call("updateNodeData", nodes, edges) EXCEPT
                           !.x = nodeId, !.ok = r.ret]
    /\ UNCHANGED <<edges, nodeCounter, issued, orchestration, pages>>

Clear ==
    /\ LET r == clear(nodeCounter)
       IN  /\ nodes' = r.nodes
           /\ edges' = r.edges
           /\ nodeCounter' = r.counter
    /\ exported' = Reassigned(exported, TRUE, TRUE)
    /\ issued' = <<>>
    /\ last' = Call("clear", nodes, edges)
    /\ UNCHANGED <<orchestration, pages>>

\* exportCircuit(): the caller keeps the object it returns
ExportCircuit ==
    /\ ~exported.held
    /\ exported' = Held(exportCircuit(nodes, edges, nodeCounter))
    /\ last' = Call("exportCircuit", nodes, edges)
    /\ UNCHANGED <<nodes, edges, nodeCounter, issued, orchestration, pages>>

ImportCircuit(circuitData) ==
    /\ LET r == importCircuit(circuitData)
       IN  /\ nodes' = r.nodes
           /\ edges' = r.edges
           /\ nodeCounter' = r.counter
    /\ exported' = Reassigned(exported, TRUE, TRUE)
    /\ issued' = <<>>
    /\ last' = [Call("importCircuit", nodes, edges) EXCEPT !.payload = circuitData]
    /\ UNCHANGED <<orchestration, pages>>

ImportFromApi(apiModel) ==
    /\ LET r == importFromApi(apiModel)
       IN  /\ nodes' = r.nodes
           /\ edges' = r.edges
           /\ nodeCounter' = r.counter
    /\ exported' = Reassigned(exported, TRUE, TRUE)
    /\ issued' = <<>>
    /\ last' = [Call("importFromApi", nodes, edges) EXCEPT !.payload = apiModel]
    /\ UNCHANGED <<orchestration, pages>>

\* loadCircuit() up to its await, on the mounted editor page
LoadCircuitStarts ==
    /\ Len(pageRequests) < MaxRemote
    /\ LET r == loadCircuit(CircuitId)
       IN  /\ loading' = r.loading
           /\ error' = r.error
           /\ pageRequests' = pageRequests \o
                 [k \in DOMAIN r.sent |-> PageRequest("load", CircuitId, r.sent[k])]
    /\ last' = Call("loadCircuit", nodes, edges)
    /\ UNCHANGED <<nodes, edges, nodeCounter, issued, orchestration, exported,
                   library>>

\* the editor page is opened: it mounts showing the loading view and onMount
\* calls loadCircuit()
OpenEditor ==
    /\ route = "none"
    /\ route' = "editor"
    /\ LoadCircuitStarts

\* the user presses Retry on the editor page's error view: retry() calls
\* loadCircuit()
PressRetry ==
    /\ route = "editor"
    /\ ~loading
    /\ Truthy(error)
    /\ route' = route
    /\ LoadCircuitStarts

\* the network answers the load request i and loadCircuit() runs to its end:
\* with a circuit, setCircuit, then importFromApi when the circuit holds a
\* saved graph; with a failure, the error view
LoadCircuitSettles(i, response, c) ==
    /\ pageRequests[i].kind = "load"
    /\ pageRequests[i].state = "pending"
    /\ LET outcome == request(response)
           r == loadCircuitSettled(error, outcome)
       IN  /\ loading' = r.loading
           /\ error' = r.error
           /\ pageRequests' = [pageRequests EXCEPT ![i] =
                                  [@ EXCEPT !.state = r.state, !.logged = r.logged,
                                            !.shown = r.shown]]
           /\ IF outcome.rejected
              THEN /\ UNCHANGED <<circuit, nodes, edges, nodeCounter, exported>>
                   /\ last' = [Call("loadCircuitSettles", nodes, edges) EXCEPT
                                   !.x = response, !.index = i]
              ELSE /\ circuit' = c
                   /\ IF c.svelte_flow_model # <<>>
                      THEN LET g == importFromApi(c.svelte_flow_model[1])
                           IN  /\ nodes' = g.nodes
                               /\ edges' = g.edges
                               /\ nodeCounter' = g.counter
                               /\ exported' = Reassigned(exported, TRUE, TRUE)
                               /\ last' = [Call("loadCircuitSettles", nodes, edges)
                                              EXCEPT !.x = response, !.index = i,
                                                     !.payload = c.svelte_flow_model[1]]
                      ELSE /\ UNCHANGED <<nodes, edges, nodeCounter, exported>>
                           /\ last' = [Call("loadCircuitSettles", nodes, edges)
                                          EXCEPT !.x = response, !.index = i]
    /\ issued' = <<>>
    /\ UNCHANGED <<saving, requests, route, library>>

\* the page shows the header, with its buttons, once it is neither loading
\* nor showing an error and a circuit is loaded
HeaderShown ==
    /\ route = "editor"
    /\ ~loading
    /\ ~Truthy(error)
    /\ circuit # NoCircuit

\* the user presses the header's Save button: a disabled button dispatches no
\* click; otherwise saveCircuit() runs up to its await
PressSave ==
    /\ HeaderShown
    /\ IF SaveDisabled(saving)
       THEN /\ last' = Call("pressSave", nodes, edges)
            /\ UNCHANGED <<saving, requests>>
       ELSE /\ Len(requests) < MaxRequests
            /\ LET r == saveCircuit(circuit, nodes, edges, nodeCounter, saving)
               IN  /\ saving' = r.saving
                   /\ requests' = requests \o [k \in DOMAIN r.sent |-> InFlight(r.sent[k])]
                   /\ last' = [Call("pressSave", nodes, edges) EXCEPT
                                   !.ok = TRUE, !.id = r.raised]
    /\ UNCHANGED <<nodes, edges, nodeCounter, circuit, issued, exported, pages>>

\* setCircuit(c), called on the state object directly
SetCircuit(c) ==
    /\ circuit' = c
    /\ last' = Call("setCircuit", nodes, edges)
    /\ UNCHANGED <<nodes, edges, nodeCounter, saving, requests, issued, exported,
                   pages>>

\* saveCircuit(), called on the state object directly, up to its await; it
\* throws before touching the flag when no circuit is set
SaveCircuit ==
    /\ Len(requests) < MaxRequests
    /\ LET r == saveCircuit(circuit, nodes, edges, nodeCounter, saving)
       IN  /\ saving' = r.saving
           /\ requests' = requests \o [k \in DOMAIN r.sent |-> InFlight(r.sent[k])]
           /\ last' = [Call("saveCircuit", nodes, edges) EXCEPT
                           !.ok = (r.raised = Undefined), !.id = r.raised]
    /\ UNCHANGED <<nodes, edges, nodeCounter, circuit, issued, exported, pages>>

\* the network answers request i and the saveCircuit() call awaiting it runs
\* to its end
RequestSettles(i, response) ==
    /\ requests[i].state = "pending"
    /\ LET r == saveCircuitSettled(request(response))
       IN  /\ saving' = r.saving
           /\ requests' = [requests EXCEPT ![i] =
                              [@ EXCEPT !.state = r.state, !.alert = r.alert,
                                        !.logged = r.logged, !.raised = r.raised]]
    /\ last' = [Call("requestSettles", nodes, edges) EXCEPT
                    !.x = response, !.index = i]
    /\ UNCHANGED <<nodes, edges, nodeCounter, circuit, issued, exported, pages>>

\* the user presses the header's Analyze button: analyzeCircuit()
PressAnalyze ==
    /\ HeaderShown
    /\ LET r == analyzeCircuit(circuit, nodes, edges)
       IN  /\ requests' = requests \o [k \in DOMAIN r.sent |-> InFlight(r.sent[k])]
           /\ last' = [Call("analyzeCircuit", nodes, edges) EXCEPT
                           !.id = r.alert, !.ok = r.started]
    /\ UNCHANGED <<nodes, edges, nodeCounter, circuit, saving, issued, exported,
                   pages>>

\* the list request of the library page's onMount
ListStarts ==
    /\ Len(pageRequests) < MaxRemote
    /\ loading' = TRUE
    /\ error' = Undefined
    /\ circuits' = <<>>
    /\ pageRequests' =
          [k \in DOMAIN pageRequests |->
              IF pageRequests[k].state = "pending"
              THEN [pageRequests[k] EXCEPT !.state = "aborted"]
              ELSE pageRequests[k]]
          \o <<PageRequest("list", 0, getCircuits)>>
    /\ last' = Call("onMount", nodes, edges)
    /\ UNCHANGED <<nodes, edges, nodeCounter, issued, orchestration, exported,
                   server>>

\* the library page is opened: it mounts showing the loading view with an
\* empty list and onMount requests the list
OpenLibrary ==
    /\ route = "none"
    /\ route' = "library"
    /\ ListStarts

\* the user presses Retry on the library page's error view: the document is
\* reloaded, which drops the calls still awaiting an answer and mounts the
\* page anew
PressReload ==
    /\ route = "library"
    /\ ~loading
    /\ Truthy(error)
    /\ route' = route
    /\ ListStarts

\* the user presses New Circuit (in the header, shown in every view) or
\* Create Circuit (in the empty view) and answers the prompt: createNewCircuit()
\* up to its await
PressNewCircuit(name) ==
    /\ route = "library"
    /\ Len(pageRequests) < MaxRemote
    /\ LET r == createNewCircuit(name)
       IN  /\ pageRequests' = pageRequests \o
                 [k \in DOMAIN r.sent |-> PageRequest("create", 0, r.sent[k])]
           /\ last' = [Call("createNewCircuit", nodes, edges) EXCEPT
                           !.x = name, !.ok = (r.sent # <<>>)]
    /\ UNCHANGED <<nodes, edges, nodeCounter, issued, orchestration, exported,
                   route, loading, error, library>>

\* the user presses Delete on a circuit of the displayed list:
\* deleteCircuit(id) up to its await
PressDelete(id) ==
    /\ ListShown
    /\ \E k \in DOMAIN circuits : circuits[k].id = id
    /\ Len(pageRequests) < MaxRemote
    /\ pageRequests' = Append(pageRequests,
                              PageRequest("delete", id, deleteCircuitRequest(id)))
    /\ last' = [Call("deleteCircuit", nodes, edges) EXCEPT !.index = id]
    /\ UNCHANGED <<nodes, edges, nodeCounter, issued, orchestration, exported,
                   route, loading, error, library>>

\* the backend handles request i of the library page and sends its answer
ServerAnswers(i, status) ==
    /\ pageRequests[i].kind \in {"list", "create", "delete"}
    /\ pageRequests[i].state = "pending"
    /\ pageRequests[i].response = NoResponse
    /\ LET r == Served(server, pageRequests[i], status)
       IN  /\ server' = r.server
           /\ pageRequests' = [pageRequests EXCEPT ![i].response = r.response]
    /\ last' = [Call("serverAnswers", nodes, edges) EXCEPT
                    !.x = status, !.index = i]
    /\ UNCHANGED <<nodes, edges, nodeCounter, issued, orchestration, exported,
                   route, loading, error, circuits>>

\* the call awaiting request i of the library page runs to its end with the
\* given answer of fetch
LibrarySettles(i, status, payload) ==
    /\ LET kind == pageRequests[i].kind
           outcome == request(status)
           r == IF kind = "list"
                THEN onMountSettled(circuits, error, outcome, payload)
                ELSE IF kind = "create"
                THEN createNewCircuitSettled(circuits, outcome, payload)
                ELSE deleteCircuitSettled(circuits, pageRequests[i].arg, outcome)
       IN  /\ circuits' = r.circuits
           /\ error' = IF kind = "list" THEN r.error ELSE error
           /\ loading' = IF kind = "list" THEN r.loading ELSE loading
           /\ pageRequests' = [pageRequests EXCEPT ![i] =
                                  [@ EXCEPT !.state = r.state, !.alert = r.alert,
                                            !.logged = r.logged,
                                            !.shown = r.shown]]
    /\ last' = [Call("responseArrives", nodes, edges) EXCEPT
                    !.x = status, !.index = i]
    /\ UNCHANGED <<nodes, edges, nodeCounter, issued, orchestration, exported,
                   route, server>>

\* the answer the backend sent to request i arrives
ResponseArrives(i) ==
    /\ pageRequests[i].kind \in {"list", "create", "delete"}
    /\ pageRequests[i].state = "pending"
    /\ pageRequests[i].response # NoResponse
    /\ LibrarySettles(i, pageRequests[i].response.status,
                      pageRequests[i].response.payload)

\* the connection of request i fails, whether or not the backend has handled
\* the request
ConnectionFails(i) ==
    /\ pageRequests[i].kind \in {"list", "create", "delete"}
    /\ pageRequests[i].state = "pending"
    /\ LibrarySettles(i, "network error", <<>>)

\* the calls that add and remove nodes and edges
NextGrow ==
    \/ \E componentType \in AddTypes : AddComponent(componentType)
    \/ \E nodeId \in NodeIds \cup EndpointIds : RemoveNode(nodeId)
    \/ \E arg \in EdgeArgs, opt \in EdgeOptions : AddEdge(arg[1], arg[2], opt)
    \/ \E edgeId \in EdgeIds \cup {AbsentEdgeId} : RemoveEdge(edgeId)

\* the editing calls
NextEdit ==
    \/ NextGrow
    \/ \E nodeId \in UpdateIds, position \in PositionArgs :
          UpdateNodePosition(nodeId, position)
    \/ \E nodeId \in UpdateIds, data \in DataArgs :
          UpdateNodeData(nodeId, data)
    \/ Clear

Next ==
    \/ NextEdit
    \/ \E circuitData \in CircuitDatas : ImportCircuit(circuitData)
    \/ \E apiModel \in ApiModels : ImportFromApi(apiModel)

\* adding nodes and moving them
NextMove ==
    \/ \E componentType \in AddTypes : AddComponent(componentType)
    \/ \E nodeId \in NodeIds \cup {AbsentNodeId}, position \in MovePositions :
          UpdateNodePosition(nodeId, position)

\* the editor page: the load, the header's buttons and the answers of the
\* network
NextPage ==
    \/ OpenEditor
    \/ PressRetry
    \/ \E i \in DOMAIN pageRequests, response \in ServerStatuses, c \in Circuits :
          LoadCircuitSettles(i, response, c)
    \/ \E componentType \in AddTypes : HeaderShown /\ AddComponent(componentType)
    \/ PressSave
    \/ \E i \in DOMAIN requests, response \in Responses : RequestSettles(i, response)
    \/ PressAnalyze

\* the state object driven by calls of its methods, saveCircuit among them,
\* and the answers of the network
NextCalls ==
    \/ \E c \in Circuits : SetCircuit(c)
    \/ \E componentType \in AddTypes : AddComponent(componentType)
    \/ SaveCircuit
    \/ \E i \in DOMAIN requests, response \in Responses : RequestSettles(i, response)

\* the editing calls, addEdge being called only with the ids of two nodes of
\* the collection
NextLinked ==
    \/ \E componentType \in AddTypes : AddComponent(componentType)
    \/ \E nodeId \in NodeIds \cup EndpointIds : RemoveNode(nodeId)
    \/ \E arg \in EdgeArgs, opt \in EdgeOptions :
          /\ arg[1] \in NodeIds
          /\ arg[2] \in NodeIds
          /\ AddEdge(arg[1], arg[2], opt)
    \/ \E edgeId \in EdgeIds \cup {AbsentEdgeId} : RemoveEdge(edgeId)
    \/ \E nodeId \in UpdateIds, position \in PositionArgs :
          UpdateNodePosition(nodeId, position)
    \/ \E nodeId \in UpdateIds, data \in DataArgs :
          UpdateNodeData(nodeId, data)
    \/ Clear

\* the editing calls on the nodes and edges of the collections, and one
\* exportCircuit call
NextExport ==
    \/ \E componentType \in AddTypes : AddComponent(componentType)
    \/ \E nodeId \in NodeIds : RemoveNode(nodeId)
    \/ \E arg \in EdgeArgs, opt \in EdgeOptions :
          /\ arg[1] \in NodeIds
          /\ arg[2] \in NodeIds
          /\ ~Truthy(opt.edgeId)
          /\ AddEdge(arg[1], arg[2], opt)
    \/ \E edgeId \in EdgeIds : RemoveEdge(edgeId)
    \/ \E nodeId \in UpdateIds, position \in PositionArgs :
          UpdateNodePosition(nodeId, position)
    \/ \E nodeId \in UpdateIds, data \in DataArgs :
          UpdateNodeData(nodeId, data)
    \/ Clear
    \/ ExportCircuit

\* add and remove calls on a fresh state
SpecGrow == Init /\ [][NextGrow]_vars

\* the editing calls on a fresh state
SpecEdit == Init /\ [][NextEdit]_vars

\* the editing calls and the imports
Spec == Init /\ [][Next]_vars

\* addComponent and updateNodePosition calls on a fresh state
SpecMove == Init /\ [][NextMove]_vars

\* the editing calls on a fresh state, every edge drawn between two nodes
SpecLinked == Init /\ [][NextLinked]_vars


\* the library page: its buttons, the backend and the network
NextLibrary ==
    \/ OpenLibrary
    \/ PressReload
    \/ \E name \in PromptAnswers : PressNewCircuit(name)
    \/ \E id \in {circuits[k].id : k \in DOMAIN circuits} : PressDelete(id)
    \/ \E i \in DOMAIN pageRequests, status \in ServerStatuses :
          ServerAnswers(i, status)
    \/ \E i \in DOMAIN pageRequests : ResponseArrives(i)
    \/ \E i \in DOMAIN pageRequests : ConnectionFails(i)

\* a visit of either page: every operation that talks to the backend
NextRemote ==
    \/ OpenEditor
    \/ PressRetry
    \/ \E i \in DOMAIN pageRequests, response \in ServerStatuses, c \in Circuits :
          LoadCircuitSettles(i, response, c)
    \/ PressSave
    \/ \E i \in DOMAIN requests, response \in Responses : RequestSettles(i, response)
    \/ NextLibrary

\* the editing calls on a fresh state and an exportCircuit call among them
SpecExport == Init /\ [][NextExport]_vars

\* a visit of the library page
SpecLibrary == Init /\ [][NextLibrary]_vars

\* a visit of the editor page or of the library page
SpecRemote == Init /\ [][NextRemote]_vars

\* a state object whose methods are called directly
SpecCalls == Init /\ [][NextCalls]_vars

\* the editor page from its mount on
SpecPage == Init /\ [][NextPage]_vars

-----------------------------------------------------------------------------
(* Helpers of the properties *)

\* two edges join the same unordered pair of node ids
SamePair(e, f) ==
    \/ e.source = f.source /\ e.target = f.target
    \/ e.source = f.target /\ e.target = f.source

\* after is before without the elements failing Keep, in before's order
KeptInOrder(before, after, Keep(_)) == after = SelectSeq(before, Keep)

\* the number and the type prefix a generated node id `${type}-${n}` carries
SeqNo(id) ==
    CHOOSE n \in 1..(MaxCounter + 1) : \E t \in ComponentTypes : id = NodeId(t, n)

Prefix(id) ==
    CHOOSE t \in ComponentTypes : \E n \in 1..(MaxCounter + 1) : id = NodeId(t, n)

IsImport(call) == call.op \in {"importCircuit", "importFromApi"}

\* the counter a payload supplies, 0 when it supplies none
Supplied(payload) ==
    IF payload.metadata.nodeCounter = NoCounter THEN 0
    ELSE payload.metadata.nodeCounter[1]

Greater(a, b) == IF a >= b THEN a ELSE b

-----------------------------------------------------------------------------
(* C1..C10 *)

\* C1: addEdge(a, b) followed by addEdge(b, a) returns the same edge id both
\* times, and the second call leaves the edge collection unchanged, whatever
\* edgeId or style it supplies and whatever the prior state.
C1_SwappedAddEdgeIdempotent ==
    [][(/\ last.op = "addEdge"
        /\ last'.op = "addEdge"
        /\ last'.x = last.y
        /\ last'.y = last.x)
       => (last'.id = last.id /\ edges' = edges)]_vars

\* an addEdge(b, a) was made right after addEdge(a, b) with a # b
C1_Witness ==
    /\ last.op = "addEdge"
    /\ last.swapped
    /\ last.x # last.y
    /\ \E i \in DOMAIN edges : edges[i].id = last.id

\* C2: in every state reachable from the empty state by the editing calls, the
\* edge collection holds at most one edge between any unordered pair of ids.
C2_OneEdgePerPair ==
    \A i \in DOMAIN edges, j \in DOMAIN edges :
        i # j => ~SamePair(edges[i], edges[j])

\* two edges are held and the last call was an addEdge that found its pair
\* already joined in the other direction
C2_Witness ==
    /\ Len(edges) = 2
    /\ last.op = "addEdge"
    /\ last.swapped
    /\ last.hadEdges = 2
    /\ last.x # last.y

\* C3: after removeNode(n) no edge has n as source or target, no node has id
\* n, and every other node and every edge not touching n is kept in its
\* original relative order.
C3_RemoveNodeCascades ==
    [][last'.op = "removeNode"
       => /\ getConnectedEdges(edges', last'.x) = <<>>
          /\ getNodeById(nodes', last'.x) = 0
          /\ KeptInOrder(nodes, nodes', LAMBDA node : node.id # last'.x)
          /\ KeptInOrder(edges, edges', LAMBDA edge :
                 edge.source # last'.x /\ edge.target # last'.x)]_vars

\* a removeNode removed a node and cascaded to an edge, keeping other nodes
\* and edges
C3_Witness ==
    /\ last.op = "removeNode"
    /\ last.ok
    /\ Len(edges) < last.hadEdges
    /\ Len(edges) >= 1
    /\ Len(nodes) >= 2

\* C4: for every sequence of addComponent calls on a fresh state, with
\* removeNode calls interleaved, the returned ids are pairwise distinct, the
\* numbers of ids sharing a type prefix strictly increase, every number issued
\* is below the counter, and the counter never decreases.
C4_IdsFreshAndIncreasing ==
    /\ [](/\ \A i \in DOMAIN issued, j \in DOMAIN issued :
                i < j => /\ issued[i] # issued[j]
                         /\ Prefix(issued[i]) = Prefix(issued[j])
                               => SeqNo(issued[i]) < SeqNo(issued[j])
          /\ \A i \in DOMAIN issued : SeqNo(issued[i]) < nodeCounter)
    /\ [][nodeCounter' >= nodeCounter]_vars

\* two ids of one prefix were issued with a removal before the second
C4_Witness ==
    /\ Len(issued) = 2
    /\ Prefix(issued[1]) = Prefix(issued[2])
    /\ last.op = "addComponent"
    /\ Len(nodes) = 1

\* the state of the scenario after addComponent("voltage") then
\* addComponent("resistor") on a fresh state
C5_AfterTwoAdds ==
    /\ Len(issued) = 2
    /\ Len(nodes) = 2
    /\ nodes[1].data.type = "voltage"
    /\ edges = <<>>
    /\ last.op = "addComponent"
    /\ last.x = "resistor"

\* the stats the scenario ends with
C5_Stats ==
    [totalNodes |-> 2, totalEdges |-> 1,
     componentCounts |-> [t \in ComponentTypes |->
                            IF t \in {"voltage", "resistor"} THEN 1 ELSE 0]]

\* C5 as stated: the second addComponent returns "resistor-1".
C5_ScenarioAsStated ==
    C5_AfterTwoAdds
    => /\ issued = <<"voltage-1", "resistor-1">>
       /\ LET r == addEdge(edges, "voltage-1", "resistor-1", Undefined, Undefined)
          IN  /\ r.ret = "evoltage-1-resistor-1"
              /\ getCircuitStats(nodes, r.edges) = C5_Stats

\* C5 as amended: on a fresh state addComponent("voltage") returns
\* "voltage-1", addComponent("resistor") then returns "resistor-2",
\* addEdge("voltage-1", "resistor-2") then returns "evoltage-1-resistor-2"
\* (and addEdge("voltage-1", "resistor-1") would return
\* "evoltage-1-resistor-1"), and getCircuitStats() then reports 2 nodes, 1
\* edge, voltage 1, resistor 1, capacitor 0, inductor 0.
C5_Scenario ==
    C5_AfterTwoAdds
    => /\ issued = <<"voltage-1", "resistor-2">>
       /\ last.id = "resistor-2"
       /\ LET r == addEdge(edges, "voltage-1", "resistor-2", Undefined, Undefined)
              q == addEdge(edges, "voltage-1", "resistor-1", Undefined, Undefined)
          IN  /\ r.ret = "evoltage-1-resistor-2"
              /\ getCircuitStats(nodes, r.edges) = C5_Stats
              /\ q.ret = "evoltage-1-resistor-1"
              /\ getCircuitStats(nodes, q.edges) = C5_Stats

\* the scenario's two adds were made and nothing was removed
C5_Witness ==
    /\ C5_AfterTwoAdds
    /\ nodeCounter = 3
    /\ last.hadNodes = 1

\* C6: after clear() getCircuitStats() reports 0 nodes and 0 edges, the counter
\* is 1, and the next addComponent("resistor") returns "resistor-1".
C6_ClearResets ==
    /\ [](last.op = "clear"
          => /\ getCircuitStats(nodes, edges).totalNodes = 0
             /\ getCircuitStats(nodes, edges).totalEdges = 0
             /\ nodeCounter = 1)
    /\ [][(last.op = "clear" /\ last'.op = "addComponent" /\ last'.x = "resistor")
          => last'.id = "resistor-1"]_vars

\* a clear() of a graph that held nodes and edges
C6_Witness ==
    /\ last.op = "clear"
    /\ last.hadNodes >= 2
    /\ last.hadEdges >= 1

\* C7 as stated: after an import the counter is the greater of the payload's
\* metadata.nodeCounter and the number of imported nodes + 1.
C7_CounterIsGreater ==
    IsImport(last)
    => nodeCounter = Greater(Supplied(last.payload), Len(last.payload.nodes) + 1)

\* C7 as amended: after an import the counter is the payload's
\* metadata.nodeCounter when that is given and not 0, and the number of
\* imported nodes + 1 otherwise.
C7_CounterIsSuppliedOrCount ==
    IsImport(last)
    => nodeCounter = IF Supplied(last.payload) # 0
                     THEN Supplied(last.payload)
                     ELSE Len(last.payload.nodes) + 1

\* an import whose payload supplies a counter below its node count + 1
C7_Witness ==
    /\ IsImport(last)
    /\ Supplied(last.payload) # 0
    /\ Supplied(last.payload) < Len(last.payload.nodes) + 1
    /\ nodeCounter = Supplied(last.payload)

\* C8: after an import of a payload whose node ids have the form {type}-{n},
\* no addComponent call returns the id of a node that is in the collection
\* (the node it appends is the only one carrying the returned id).
C8_NoCollisionAfterImport ==
    last.op = "addComponent"
    => Cardinality({i \in DOMAIN nodes : nodes[i].id = last.id}) = 1

\* the round trip of the current graph: exportToApi, then importFromApi on a
\* fresh state
RoundTrip == importFromApi(exportToApi(nodes, edges, nodeCounter))

\* C9: exportToApi() fed into importFromApi() on a fresh state yields the same
\* ids, order, component types, labels and positions of the nodes and the same
\* ids, endpoints and styles of the edges.
C9_RoundTripEquivalent ==
    /\ Len(RoundTrip.nodes) = Len(nodes)
    /\ Len(RoundTrip.edges) = Len(edges)
    /\ \A i \in DOMAIN nodes :
          /\ RoundTrip.nodes[i].id = nodes[i].id
          /\ RoundTrip.nodes[i].position = nodes[i].position
          /\ RoundTrip.nodes[i].data.type = nodes[i].data.type
          /\ RoundTrip.nodes[i].data.label = nodes[i].data.label
    /\ \A i \in DOMAIN edges :
          /\ RoundTrip.edges[i].id = edges[i].id
          /\ RoundTrip.edges[i].source = edges[i].source
          /\ RoundTrip.edges[i].target = edges[i].target
          /\ RoundTrip.edges[i].style = edges[i].style

-----------------------------------------------------------------------------
(* C11..C20 *)

Abs(n) == IF n >= 0 THEN n ELSE -n

\* s is a multiple of the pitch and no multiple of the pitch is nearer to v
NearestOnGrid(s, v) ==
    /\ s % GridSize = 0
    /\ 2 * Abs(s - v) <= GridSize

\* C11: for every existing node and every integer position (x, y), positive
\* or negative, updateNodePosition returns true and the node then holds the
\* multiple of 20 nearest to x and the multiple of 20 nearest to y; (23, -11)
\* becomes (20, -20).
C11_UpdateSnapsToNearest ==
    /\ (last.op = "updateNodePosition" /\ last.x \in NodeIds)
          => /\ last.ok
             /\ \A i \in DOMAIN nodes :
                   nodes[i].id = last.x
                      => /\ NearestOnGrid(nodes[i].position.x, last.position.x)
                         /\ NearestOnGrid(nodes[i].position.y, last.position.y)
    /\ snapToGrid([x |-> 23, y |-> -11]) = [x |-> 20, y |-> -20]

\* a node was moved to a position with a negative coordinate that is not on
\* the grid, after another node had been moved
C11_Witness ==
    /\ last.op = "updateNodePosition"
    /\ last.ok
    /\ last.position = [x |-> -29, y |-> 31]
    /\ \E i \in DOMAIN nodes :
          /\ nodes[i].id = last.x
          /\ nodes[i].position = [x |-> -20, y |-> 40]
    /\ \E j \in DOMAIN nodes :
          /\ nodes[j].id # last.x
          /\ nodes[j].position = [x |-> 20, y |-> -20]

OnGrid(position) ==
    /\ position.x % GridSize = 0
    /\ position.y % GridSize = 0

\* C12: in every reachable state, also after importCircuit / importFromApi,
\* and in every payload exportToApi produces, each node's x and y position is
\* a multiple of the grid pitch 20.
C12_AllPositionsOnGrid ==
    /\ \A i \in DOMAIN nodes : OnGrid(nodes[i].position)
    /\ LET apiModel == exportToApi(nodes, edges, nodeCounter)
       IN  \A i \in DOMAIN apiModel.nodes : OnGrid(apiModel.nodes[i].position)

\* C13: validateCircuit on an empty graph returns isValid = true with an empty
\* warning list; on a graph holding exactly one resistor node and no edges it
\* returns exactly two warnings, one about disconnected components and one
\* about a missing voltage source.
C13_ValidateSmallGraphs ==
    LET validation == validateCircuit(nodes, edges)
    IN  /\ (nodes = <<>> /\ edges = <<>>)
              => (validation.isValid /\ validation.warnings = <<>>)
        /\ (Len(nodes) = 1 /\ nodes[1].data.type = "resistor" /\ edges = <<>>)
              => validation.warnings =
                    <<"1 disconnected component(s) found",
                      "No voltage source found in circuit">>

\* one resistor and no edge are left after a node was removed together with
\* its edges
C13_Witness ==
    /\ Len(nodes) = 1
    /\ nodes[1].data.type = "resistor"
    /\ edges = <<>>
    /\ last.op = "removeNode"
    /\ last.ok
    /\ last.hadEdges >= 1

\* the elements of a sequence
Range(seq) == {seq[i] : i \in DOMAIN seq}

\* C14: in every reachable state validateCircuit returns isValid = true with
\* an empty error list; the disconnected-components warning is among the
\* warnings exactly when some node has no edge naming it as source or target,
\* and the missing-voltage-source warning exactly when the node collection is
\* non-empty and holds no voltage node.
C14_ValidateWarnsExactly ==
    LET validation == validateCircuit(nodes, edges)
    IN  /\ validation.isValid
        /\ validation.errors = <<>>
        /\ (\E n \in 1..Len(nodes) :
                DisconnectedWarning(n) \in Range(validation.warnings))
              <=> (\E i \in DOMAIN nodes : \A j \in DOMAIN edges :
                      edges[j].source # nodes[i].id /\ edges[j].target # nodes[i].id)
        /\ (NoVoltageWarning \in Range(validation.warnings))
              <=> (/\ nodes # <<>>
                   /\ \A i \in DOMAIN nodes : nodes[i].data.type # "voltage")
        /\ Len(validation.warnings) <= 2

\* a graph with a voltage node and edges in which every node is an endpoint
\* of an edge: nothing to warn about
C14_Witness ==
    /\ Len(nodes) >= 2
    /\ Len(edges) >= 1
    /\ validateCircuit(nodes, edges).warnings = <<>>
    /\ \E i \in DOMAIN nodes : \A j \in DOMAIN edges : edges[j].source # nodes[i].id

\* C15: removeNode(id) with an id that is not in the node collection is a
\* no-op: it returns false and leaves the node collection, the edge collection
\* and the node counter unchanged, in every reachable state, also where
\* addEdge created edges naming that absent id.
C15_RemoveAbsentNodeIsNoOp ==
    [][(last'.op = "removeNode" /\ last'.x \notin NodeIds)
       => /\ ~last'.ok
          /\ nodes' = nodes
          /\ edges' = edges
          /\ nodeCounter' = nodeCounter]_vars

\* the step changes nothing of the graph
GraphUnchanged ==
    /\ nodes' = nodes
    /\ edges' = edges
    /\ nodeCounter' = nodeCounter

\* the step changes one node and of it only the given field ("position" or
\* "data"): same length, same ids in the same order, every other node and
\* every other field as before
OnlyNodeFieldChanged(nodeId, field) ==
    /\ Len(nodes') = Len(nodes)
    /\ \E k \in DOMAIN nodes :
          /\ nodes[k].id = nodeId
          /\ \A i \in DOMAIN nodes : i # k => nodes'[i] = nodes[i]
          /\ \A f \in DOMAIN nodes[k] : f # field => nodes'[k][f] = nodes[k][f]
          /\ DOMAIN nodes'[k] = DOMAIN nodes[k]

\* C16: removeEdge, updateNodePosition and updateNodeData called with an
\* identifier that is absent return false and leave nodes, edges and node
\* counter unchanged; called with a present identifier they return true and
\* change only the named edge or node: removeEdge leaves the nodes, the
\* counter and every other edge (in order) untouched, the update operations
\* leave the edges, the counter, the node order and every other node and
\* every other field of the node untouched.
C16_AbsentIdsFailQuietly ==
    [][/\ last'.op = "removeEdge"
          => IF last'.x \in EdgeIds
             THEN /\ last'.ok
                  /\ nodes' = nodes
                  /\ nodeCounter' = nodeCounter
                  /\ getEdgeById(edges', last'.x) = 0
                  /\ SelectSeq(edges', LAMBDA edge : edge.id # last'.x)
                        = SelectSeq(edges, LAMBDA edge : edge.id # last'.x)
             ELSE ~last'.ok /\ GraphUnchanged
       /\ last'.op = "updateNodePosition"
          => IF last'.x \in NodeIds
             THEN /\ last'.ok
                  /\ edges' = edges
                  /\ nodeCounter' = nodeCounter
                  /\ OnlyNodeFieldChanged(last'.x, "position")
             ELSE ~last'.ok /\ GraphUnchanged
       /\ last'.op = "updateNodeData"
          => IF last'.x \in NodeIds
             THEN /\ last'.ok
                  /\ edges' = edges
                  /\ nodeCounter' = nodeCounter
                  /\ OnlyNodeFieldChanged(last'.x, "data")
             ELSE ~last'.ok /\ GraphUnchanged]_vars

\* an update of a node's data succeeded in a graph with other nodes and edges
C16_Witness ==
    /\ last.op = "updateNodeData"
    /\ last.ok
    /\ Len(nodes) >= 2
    /\ Len(edges) >= 1
    /\ \E i \in DOMAIN nodes : nodes[i].id = last.x /\ nodes[i].data.label = "R1"
    /\ \E j \in DOMAIN nodes : nodes[j].id # last.x

\* the indices of the requests in flight
Pending == {i \in DOMAIN requests : requests[i].state = "pending"}

\* C17: for every saveCircuit call with a circuit loaded, the saving flag is
\* true from the start of the call until the network call settles and false
\* once the call has completed, whether the request succeeded or failed; on
\* failure the error is logged and re-raised to the caller; the graph (nodes,
\* edges, counter) is unchanged by the save.
C17_SavingFlagAroundSave ==
    /\ [](/\ Pending # {} => saving
          /\ Pending = {} => ~saving
          /\ \A i \in DOMAIN requests :
                /\ requests[i].state = "fulfilled"
                      => requests[i].raised = Undefined /\ ~requests[i].logged
                /\ requests[i].state = "rejected"
                      => requests[i].raised # Undefined /\ requests[i].logged)
    /\ [][/\ (last'.op = "pressSave" /\ last'.ok)
              => /\ saving'
                 /\ Len(requests') = Len(requests) + 1
                 /\ Len(requests') \in {i \in DOMAIN requests' :
                                           requests'[i].state = "pending"}
                 /\ GraphUnchanged
          /\ last'.op = "requestSettles"
              => /\ saving
                 /\ ~saving'
                 /\ requests'[last'.index].state =
                       (IF last'.x = "200" THEN "fulfilled" ELSE "rejected")
                 /\ GraphUnchanged]_vars

\* a save failed, was logged and re-raised and the flag is down, after an
\* earlier save of a non-empty graph had succeeded
C17_Witness ==
    /\ Len(requests) = 2
    /\ requests[1].state = "fulfilled"
    /\ requests[2].state = "rejected"
    /\ requests[2].raised = "HTTP 500"
    /\ requests[2].logged
    /\ ~saving
    /\ last.op = "requestSettles"
    /\ Len(nodes) >= 1

\* C18 as stated: overlapping saves are neither prevented nor serialized: when
\* the user triggers a second save before the first has resolved, a second
\* update request is issued while the first is still in flight, and both
\* proceed concurrently.
C18_SecondSaveOverlaps ==
    [][(last'.op = "pressSave" /\ Pending # {})
       => /\ Len(requests') = Len(requests) + 1
          /\ requests'[Len(requests')].state = "pending"
          /\ \A i \in Pending : requests'[i].state = "pending"]_vars

\* C18 as amended: overlapping saves are not serialized or queued, but the
\* user cannot trigger one: the header's Save button, the caller of
\* saveCircuit, is disabled while the saving flag is true, so a press before
\* the first save has resolved issues no request and changes nothing, at most
\* one update request is in flight, and a save pressed after the first has
\* settled issues its own request.
C18_SecondSaveWaits ==
    /\ [](Cardinality(Pending) <= 1)
    /\ [][last'.op = "pressSave"
          => IF Pending # {}
             THEN /\ ~last'.ok
                  /\ requests' = requests
                  /\ saving' = saving
                  /\ GraphUnchanged
             ELSE /\ last'.ok
                  /\ Len(requests') = Len(requests) + 1
                  /\ requests'[Len(requests')].state = "pending"]_vars

\* Save was pressed while the request of an earlier press was in flight
C18_Witness ==
    /\ last.op = "pressSave"
    /\ ~last.ok
    /\ Cardinality(Pending) = 1
    /\ saving

\* C19: analyzeCircuit, called with a circuit loaded, exports the graph and
\* delegates to the analysis endpoint through the API client: one analysis
\* request is issued per call, with the saving flag set around that network
\* call.
C19_AnalyzeDelegates ==
    [][(last'.op = "analyzeCircuit" /\ circuit # NoCircuit)
       => /\ Len(requests') = Len(requests) + 1
          /\ requests'[Len(requests')].endpoint =
                analyzeCircuitRequest(circuit.id, "static").endpoint
          /\ requests'[Len(requests')].state = "pending"
          /\ saving']_vars

\* validation results with and without errors and warnings
Validations ==
    {[isValid |-> errors = <<>>, errors |-> errors, warnings |-> warnings] :
        errors \in {<<>>, <<"short circuit">>, <<"short circuit", "open loop">>},
        warnings \in {<<>>, <<NoVoltageWarning>>,
                      <<DisconnectedWarning(1), NoVoltageWarning>>}}

\* C20: validation warnings never block save or analyze: in every state with
\* a circuit loaded, saveCircuit issues its update request and analyzeCircuit
\* reaches its 'analysis started' outcome no matter which warnings
\* validateCircuit reports; given any validation result, analyzeCircuit is
\* stopped exactly by a non-empty error list.
C20_WarningsNeverBlock ==
    circuit # NoCircuit
    => /\ LET r == saveCircuit(circuit, nodes, edges, nodeCounter, saving)
          IN  /\ Len(r.sent) = 1
              /\ r.sent[1].method = "PATCH"
              /\ r.sent[1].body.svelte_flow_model = exportToApi(nodes, edges, nodeCounter)
              /\ r.raised = Undefined
       /\ LET a == analyzeCircuit(circuit, nodes, edges)
          IN  /\ a.started
              /\ a.alert = "Circuit analysis started! (Analysis API not yet implemented)"
              /\ a.warned <=> validateCircuit(nodes, edges).warnings # <<>>
       /\ \A v \in Validations :
              analyzeValidated(circuit, v).started <=> v.errors = <<>>
       /\ last.op = "analyzeCircuit" => last.ok
       /\ (last.op = "pressSave" /\ last.ok) => Pending # {}

\* Analyze was pressed, and reached the analysis, on a graph that draws both
\* warnings while a save of that graph is in flight
C20_Witness ==
    /\ last.op = "analyzeCircuit"
    /\ last.ok
    /\ Len(validateCircuit(nodes, edges).warnings) = 2
    /\ \E i \in Pending :
          requests[i].body.svelte_flow_model = exportToApi(nodes, edges, nodeCounter)

-----------------------------------------------------------------------------
(* C21..C30 *)

\* the calls that make a request: the loads behind opening a page and
\* pressing Retry, and the calls behind Save, New Circuit and Delete
RemoteCalls ==
    {"loadCircuit", "onMount", "pressSave", "createNewCircuit", "deleteCircuit"}

\* C21: every remote operation is attempt-once: each call of saveCircuit, of
\* the circuit load and of the library page's list, create and delete makes
\* exactly one request; a request that has settled is never made again and
\* no request is made by a step other than a call the user caused; and every
\* failure ends in a report the user sees, an alert or the error view.
C21_AttemptOnce ==
    [][/\ last'.op \in {"loadCircuit", "onMount", "deleteCircuit"}
           => /\ Len(pageRequests') = Len(pageRequests) + 1
              /\ pageRequests'[Len(pageRequests')].state = "pending"
              /\ requests' = requests
       /\ (last'.op = "createNewCircuit" /\ Truthy(last'.x))
           => /\ Len(pageRequests') = Len(pageRequests) + 1
              /\ pageRequests'[Len(pageRequests')].state = "pending"
              /\ requests' = requests
       /\ (last'.op = "pressSave" /\ last'.ok)
           => /\ Len(requests') = Len(requests) + 1
              /\ requests'[Len(requests')].state = "pending"
              /\ pageRequests' = pageRequests
       /\ last'.op \notin RemoteCalls
           => /\ Len(requests') = Len(requests)
              /\ Len(pageRequests') = Len(pageRequests)
       /\ \A i \in DOMAIN requests :
              requests[i].state # "pending"
                  => requests'[i].state = requests[i].state
       /\ \A i \in DOMAIN pageRequests :
              pageRequests[i].state # "pending"
                  => pageRequests'[i].state = pageRequests[i].state
       /\ (last'.op = "requestSettles" /\ last'.x # "200")
           => /\ requests'[last'.index].state = "rejected"
              /\ Truthy(requests'[last'.index].alert)
       /\ (last'.op = "loadCircuitSettles" /\ last'.x # "200")
           => /\ pageRequests'[last'.index].state = "rejected"
              /\ ~loading'
              /\ Truthy(error')
       /\ (last'.op = "responseArrives" /\ last'.x # "200")
           => /\ pageRequests'[last'.index].state = "rejected"
              /\ IF pageRequests[last'.index].kind = "list"
                 THEN ~loading' /\ Truthy(error')
                 ELSE Truthy(pageRequests'[last'.index].alert)]_vars

\* a load of the circuit failed and the user pressed Retry: a second load
\* request is in flight after the first was rejected
C21_Witness ==
    /\ route = "editor"
    /\ Len(pageRequests) = 2
    /\ pageRequests[1].state = "rejected"
    /\ pageRequests[2].state = "pending"
    /\ last.op = "loadCircuit"
    /\ loading

\* the step appends one element to the edge collection and keeps the others
OneEdgeAppended ==
    /\ Len(edges') = Len(edges) + 1
    /\ SubSeq(edges', 1, Len(edges)) = edges

\* C22: addEdge does not validate its endpoints: called with a sourceId or
\* targetId that names no node of the collection, and with no edge between
\* the two ids, it appends a new edge from sourceId to targetId and returns
\* its identifier, leaving the node collection unchanged.
C22_AddEdgeAcceptsAnyEndpoint ==
    [][(/\ last'.op = "addEdge"
        /\ last'.x \notin NodeIds \/ last'.y \notin NodeIds
        /\ \A i \in DOMAIN edges :
              ~SamePair(edges[i], [source |-> last'.x, target |-> last'.y]))
       => /\ OneEdgeAppended
          /\ edges'[Len(edges')].source = last'.x
          /\ edges'[Len(edges')].target = last'.y
          /\ edges'[Len(edges')].id = last'.id
          /\ last'.id \in {"w1", DefaultEdgeId(last'.x, last'.y)}
          /\ nodes' = nodes]_vars

\* an edge was added from a node of the collection to an id that names no
\* node
C22_Witness ==
    /\ last.op = "addEdge"
    /\ Len(edges) = last.hadEdges + 1
    /\ last.x \in NodeIds
    /\ last.y \notin NodeIds
    /\ edges[Len(edges)].target = last.y

\* C23: when every addEdge call names two nodes that are in the node
\* collection when it is called, then in every state reachable by
\* addComponent, addEdge, removeNode, removeEdge, updateNodePosition,
\* updateNodeData and clear, the source and the target of every edge are
\* identifiers of nodes in the node collection.
C23_EdgesJoinNodes ==
    \A i \in DOMAIN edges :
        edges[i].source \in NodeIds /\ edges[i].target \in NodeIds

\* a node was removed together with an edge that named it, and an edge
\* between the nodes that are left is still there
C23_Witness ==
    /\ last.op = "removeNode"
    /\ last.ok
    /\ Len(edges) < last.hadEdges
    /\ Len(edges) >= 1
    /\ Len(nodes) >= 1

\* C25: whenever at least one saveCircuit call has an update request in
\* flight, the saving flag is true, for every interleaving of overlapping
\* saveCircuit calls and their responses.
C25_FlagCoversEveryRequest ==
    \A i \in DOMAIN requests : requests[i].state = "pending" => saving

\* C26: through the header's Save button, disabled while the saving flag is
\* true, at most one save request is in flight at any time: the flag is set
\* before saveCircuit first suspends, so the button is disabled whenever a
\* request is in flight and a press starts a save only when none is.
C26_OneSaveInFlight ==
    /\ [](/\ Cardinality(Pending) <= 1
          /\ Pending # {} => SaveDisabled(saving))
    /\ [][(last'.op = "pressSave" /\ last'.ok)
          => /\ Pending = {}
             /\ ~saving
             /\ saving'
             /\ Cardinality(Pending') = 1]_vars

\* a second save was started by a press after the first had settled
C26_Witness ==
    /\ Len(requests) = 2
    /\ requests[1].state # "pending"
    /\ requests[2].state = "pending"
    /\ last.op = "pressSave"
    /\ last.ok
    /\ saving

\* C27: the payload of a save is the graph as it was when saveCircuit was
\* called: an edit made while the request is in flight does not change the
\* request, stays in the graph when the response arrives, and is sent only by
\* a later save.
C27_PayloadIsGraphAtCall ==
    [][/\ (last'.op = "pressSave" /\ last'.ok)
           => /\ requests'[Len(requests')].body.svelte_flow_model =
                    exportToApi(nodes, edges, nodeCounter)
              /\ GraphUnchanged
       /\ \A i \in DOMAIN requests :
              /\ i \in DOMAIN requests'
              /\ requests'[i].body = requests[i].body
       /\ last'.op = "requestSettles" => GraphUnchanged
       /\ Len(requests') > Len(requests)
           => last'.op = "pressSave" /\ Len(requests') = Len(requests) + 1]_vars

\* a component was added while a save was in flight: the graph holds a node
\* the request does not
C27_Witness ==
    /\ last.op = "addComponent"
    /\ \E i \in Pending :
          /\ Len(requests[i].body.svelte_flow_model.nodes) < Len(nodes)
          /\ requests[i].body.svelte_flow_model.edges # <<>>

\* C28: in every state reachable by addComponent, addEdge (with or without a
\* caller-supplied edgeId), removeEdge, removeNode and clear, the identifiers
\* of the edges in the edge collection are pairwise distinct.
C28_EdgeIdsDistinct ==
    \A i \in DOMAIN edges, j \in DOMAIN edges :
        i # j => edges[i].id # edges[j].id

\* C29: for a graph built from an empty state by addComponent, removeNode,
\* addEdge and removeEdge, exportToApi then importFromApi into a fresh state
\* gives a node counter equal to the counter at export, so the identifier a
\* later addComponent returns differs from every identifier addComponent
\* returned before the export.
C29_ReloadKeepsIdsFresh ==
    /\ RoundTrip.counter = nodeCounter
    /\ \A componentType \in ComponentTypes :
          addComponentInternal(RoundTrip.nodes, RoundTrip.counter, componentType,
                               DefaultPosition, Undefined).ret
              \notin Range(issued)

\* two identifiers were issued and one of the two nodes was removed, so the
\* graph that is saved has fewer nodes than identifiers issued
C29_Witness ==
    /\ Len(issued) = 2
    /\ Len(nodes) = 1
    /\ last.op = "removeNode"
    /\ last.ok
    /\ RoundTrip.counter = 3

\* C24: the object returned by exportCircuit() is a snapshot: its nodes and
\* edges as observed at export time are not changed by any later
\* addComponent, removeNode, addEdge, removeEdge, updateNodePosition,
\* updateNodeData or clear on the state.
C24_ExportIsSnapshot ==
    exported.held
    => /\ exported.object.nodes = exported.atExport.nodes
       /\ exported.object.edges = exported.atExport.edges

\* the circuit with the given id was deleted: a delete request naming it
\* was carried out by the backend or succeeded
Deleted(id) ==
    \E j \in DOMAIN pageRequests :
        /\ pageRequests[j].kind = "delete"
        /\ pageRequests[j].arg = id
        /\ \/ pageRequests[j].state = "fulfilled"
           \/ pageRequests[j].response.status = "200"

\* C30: on the library page, a circuit whose create request succeeded is in
\* the displayed list until it is deleted, for every interleaving of the
\* list-load response with create and delete responses.
C30_CreatedStaysListed ==
    (route = "library" /\ ~loading /\ ~Truthy(error))
    => \A i \in DOMAIN pageRequests :
          (pageRequests[i].kind = "create" /\ pageRequests[i].state = "fulfilled")
          => \/ Deleted(pageRequests[i].response.payload[1].id)
             \/ \E k \in DOMAIN circuits :
                   circuits[k] = pageRequests[i].response.payload[1]

\* the second half of C30: a failed delete or create leaves the displayed
\* list unchanged
C30_FailureKeepsList ==
    [][(/\ last'.op = "responseArrives"
        /\ pageRequests[last'.index].kind \in {"create", "delete"}
        /\ pageRequests'[last'.index].state = "rejected")
       => /\ circuits' = circuits
          /\ loading' = loading
          /\ error' = error]_vars

====
